---- MODULE Spec2Model ----
(***************************************************************************)
(* Model of the RGB LED calibration tool: the shared configuration store   *)
(* (main.rs), the time-division multiplexing scheduler (rgb.rs), the knob   *)
(* quantizer (knob.rs) and the input controller (ui.rs).                    *)
(***************************************************************************)
EXTENDS Integers, Sequences, FiniteSets, TLC

(***************************************************************************)
(* Program constants                                                       *)
(***************************************************************************)
\* main.rs:59  pub const LEVELS: u32 = 16
LEVELS == 16

\* main.rs:56  FRAME_RATE: Mutex<_, u64> = Mutex::new(100)
FRAME_RATE_INIT == 100

\* main.rs:120  Rgb::new([red, green, blue], 100)
RGB_NEW_FRAME_RATE == 100

\* ui.rs:50  UiState::default frame_rate
UI_DEFAULT_FRAME_RATE == 100

\* knob.rs:54  clamp(0, 0x7fff)
RAW_MAX == 32767

\* knob.rs:57  raw as f32 / 10_000.0
FULL_SCALE == 10000

\* knob.rs:61  (LEVELS + 2) as f32 * scaled - 2.0
MARGIN == 2

\* rgb.rs:41  1_000_000 / (...)
MICROS_PER_SEC == 1000000

\* i16 sample buffer of the ADC (knob.rs:49-51)
I16_MIN == -32768

(***************************************************************************)
(* IEEE-754 binary32 arithmetic, as far as Knob::measure uses it.  A        *)
(* positive f32 is a pair <<m, e>> standing for m * 2^(-e) with             *)
(* 2^23 <= m < 2^24; zero is <<0, 0>>.  Every operation rounds to nearest,  *)
(* ties to even.                                                            *)
(***************************************************************************)
F32_MANT_LO == 8388608

F32_MANT_HI == 16777216

\* round-to-nearest-even of q + rem/den (0 <= rem < den)
RoundNearestEven(q, rem, den) ==
    IF 2 * rem > den THEN q + 1
    ELSE IF 2 * rem = den THEN q + (q % 2)
    ELSE q

\* renormalise a mantissa that rounding carried up to 2^24
F32Norm(m, e) == IF m = F32_MANT_HI THEN <<F32_MANT_LO, e - 1>> ELSE <<m, e>>

\* binary long division: the quotient n / d shifted left until it has 24 bits
RECURSIVE DivLoop(_, _, _, _)
DivLoop(q, r, e, d) ==
    IF q >= F32_MANT_LO THEN <<q, r, e>>
    ELSE DivLoop(2 * q + (IF 2 * r >= d THEN 1 ELSE 0), (2 * r) % d, e + 1, d)

\* (n as f32) / (d as f32) for integers 0 <= n < 2^24, 0 < d < 2^24
F32DivInt(n, d) ==
    IF n = 0 THEN <<0, 0>>
    ELSE LET t == DivLoop(n \div d, n % d, 0, d)
         IN  F32Norm(RoundNearestEven(t[1], t[2], d), t[3])

\* number of low bits to drop so that p (>= 2^23) fits 24 bits
RECURSIVE ShiftFor(_)
ShiftFor(p) == IF p < F32_MANT_HI THEN 0 ELSE 1 + ShiftFor(p \div 2)

\* (k as f32) * x for a small positive integer k
F32MulInt(k, x) ==
    IF x[1] = 0 THEN <<0, 0>>
    ELSE LET p == k * x[1]
             s == ShiftFor(p)
             w == 2 ^ s
         IN  F32Norm(RoundNearestEven(p \div w, p % w, w), x[2] - s)

\* variant: only the lower side is clamped
F32SubClampFloor_NoUpper(x, k, hi) ==
    IF x[1] = 0 \/ x[2] > 23 THEN 0
    ELSE LET w == 2 ^ x[2]
             d == x[1] - k * w
         IN  IF d <= 0 THEN 0 ELSE d \div w

\* x - (k as f32) followed by .clamp(0.0, hi as f32).floor() as u32.
\* For x >= k >= 1 the difference is exact (it is a multiple of x's ulp and
\* smaller than x); for x < k it is negative and clamp returns 0.0 (or -0.0).
F32SubClampFloor(x, k, hi) ==
    IF x[1] = 0 \/ x[2] > 23 THEN 0
    ELSE LET w == 2 ^ x[2]
             d == x[1] - k * w
         IN  IF d <= 0 THEN 0
             ELSE IF d > hi * w THEN hi
             ELSE d \div w

(***************************************************************************)
(* knob.rs: Knob::measure                                                   *)
(***************************************************************************)
\* variant: the i16 is cast to u16 without the clamp
ClampRaw_CastOnly(sample) == IF sample < 0 THEN sample + 65536 ELSE sample

\* buf[0].clamp(0, 0x7fff) as u16
ClampRaw(sample) == IF sample < 0 THEN 0 ELSE IF sample > RAW_MAX THEN RAW_MAX ELSE sample

measure(sample) ==
    LET raw    == ClampRaw(sample)
        scaled == F32DivInt(raw, FULL_SCALE)
        prod   == F32MulInt(LEVELS + MARGIN, scaled)
    IN  F32SubClampFloor(prod, MARGIN, LEVELS - 1)

\* variant: the + 1 is missing, level 0 gives rate 0
level_to_frame_rate_NoOffset(level) == level * 10

\* variant: the rate saturates at 150 fps
level_to_frame_rate_Capped(level) == IF level >= 14 THEN 150 ELSE (level + 1) * 10

(***************************************************************************)
(* ui.rs: Ui::level_to_frame_rate                                           *)
(***************************************************************************)
level_to_frame_rate(level) == (level + 1) * 10

\* variant: the three channels of a frame are forgotten
frame_tick_time_OneChannel(frame_rate) == MICROS_PER_SEC \div (frame_rate * LEVELS)

(***************************************************************************)
(* rgb.rs: Rgb::frame_tick_time.  Division by zero panics in Rust; the      *)
(* callers below test for it before dividing.                               *)
(***************************************************************************)
frame_tick_time(frame_rate) == MICROS_PER_SEC \div (3 * frame_rate * LEVELS)

(***************************************************************************)
(* Arrays [T; 3] are functions on 0..2, as the source indexes them.         *)
(***************************************************************************)
Leds == 0 .. 2

Triple(a, b, c) == (0 :> a) @@ (1 :> b) @@ (2 :> c)

\* variant: the store starts at the defaults of UiState
RGB_LEVELS_INIT_Defaults == Triple(LEVELS - 1, LEVELS - 1, LEVELS - 1)

\* main.rs:52  RGB_LEVELS: Mutex<_, [u32; 3]> = Mutex::new([0; 3])
RGB_LEVELS_INIT == Triple(0, 0, 0)

\* rgb.rs:56  levels: [0; 3]
RGB_NEW_LEVELS == Triple(0, 0, 0)

\* ui.rs:49  UiState::default levels
UI_DEFAULT_LEVELS == Triple(LEVELS - 1, LEVELS - 1, LEVELS - 1)

(***************************************************************************)
(* Bounds of the environment.  In one run the operator does one of:         *)
(*   <<"sweep", j>>  moves the knob inside a window of SweepWidth           *)
(*                   neighbouring positions starting at position j, with no *)
(*                   button held (the windows cover the whole travel, so    *)
(*                   every frame rate occurs);                              *)
(*   <<"dim", j>>    the same with button A held (every blue level occurs); *)
(*   <<"tune", 0>>   uses every button combination at one knob position;    *)
(*   <<"tune", c>>   for c in 1..3, moves the knob between two positions    *)
(*                   while holding the buttons of one channel or none;      *)
(*   <<"hold", h>>   moves the knob between the same two positions with no  *)
(*                   button held (h = 0) or with button A held (h = 1).     *)
(***************************************************************************)
\* knob positions of a sweep are raw = SweepStride * k, k in -1 .. MaxSweep
MaxSweep == 19

SweepStride == 555

SweepWidth == 3

SweepStarts == {j \in -1 .. MaxSweep : (j + 1) % SweepWidth = 0}

TuneLow == 0

TuneMid == 4000

ButtonsOf(c) == CASE c = 1 -> <<TRUE, TRUE>> [] c = 2 -> <<FALSE, TRUE>>
                  [] OTHER -> <<TRUE, FALSE>>

Sessions ==
    {<<"sweep", j>> : j \in SweepStarts} \cup {<<"dim", j>> : j \in SweepStarts}
        \cup {<<"tune", c>> : c \in 0 .. 3} \cup {<<"hold", h>> : h \in 0 .. 1}

Raws(s) ==
    IF s[1] \in {"sweep", "dim"}
    THEN {SweepStride * k : k \in {j \in s[2] .. s[2] + SweepWidth - 1 : j <= MaxSweep}}
    ELSE IF s[1] = "tune" /\ s[2] = 0 THEN {TuneMid} ELSE {TuneLow, TuneMid}

Buttons(s) ==
    IF s[1] = "sweep" THEN {<<FALSE, FALSE>>}
    ELSE IF s[1] = "dim" THEN {<<TRUE, FALSE>>}
    ELSE IF s[1] = "hold" THEN {<<s[2] = 1, FALSE>>}
    ELSE IF s[2] = 0 THEN BOOLEAN \X BOOLEAN
    ELSE {<<FALSE, FALSE>>, ButtonsOf(s[2])}

\* the levels Knob::measure returns for the raw samples of a session
KnobLevels == [s \in Sessions |-> {measure(raw) : raw \in Raws(s)}]

VARIABLES
    \* SharedConfigStore (main.rs)
    RGB_LEVELS,         \* contents of the RGB_LEVELS mutex
    FRAME_RATE,         \* contents of the FRAME_RATE mutex
    rgbLock,            \* holder of the RGB_LEVELS mutex: "free", "rgb", "ui"
    frLock,             \* holder of the FRAME_RATE mutex
    \* Rgb task (rgb.rs)
    pcRgb,              \* position of Rgb::run
    rgbLevels,          \* Rgb.levels
    tick_time,          \* Rgb.tick_time
    current_frame_rate, \* local of Rgb::run
    snap,               \* value being copied out by get_rgb_levels
    led,                \* loop variable of the scan loop
    pins,               \* output level of the three pins, TRUE = high
    on_time,            \* local of Rgb::step (0 when the on-phase is skipped)
    off_level,          \* local of Rgb::step
    off_time,           \* local of Rgb::step
    waited,             \* microseconds waited so far in this iteration
    \* Ui task (ui.rs)
    pcUi,               \* position of Ui::run
    uiInit,             \* TRUE until the initialization of Ui::run is done
    uiLevels,           \* Ui.state.levels
    uiFrameRate,        \* Ui.state.frame_rate
    button_a_pressed,
    button_b_pressed,
    level,              \* local of the main loop
    state_changed,
    new_rate,           \* argument of the set_frame_rate call in flight
    shows,              \* calls of UiState::show in this iteration
    \* environment and history
    session,            \* what the operator does in this run
    buf,                \* the ADC sample Knob::measure is converting
    lvComplete,         \* triple of the last completed set_rgb_levels
    lvOwed,             \* since this Rgb iteration started, Rgb.levels has
                        \* not been the triple of the last completed write
    frOwed,             \* the same for the frame rate Rgb computes with
    lvCurrent,          \* no set_rgb_levels has completed since Rgb last
                        \* took its levels
    firstSince,         \* the first triple a main-loop iteration has
                        \* published since Rgb last took its levels, <<>>
                        \* if there is none
    frCurrent,          \* no set_frame_rate has completed since Rgb last
                        \* took its frame rate
    phases,             \* <<led, "on" / "off">> for every timed wait started
                        \* in this Rgb iteration, in order
    initial_level,      \* local of Ui::run, dead once the main loop starts
    samples,            \* calls of Knob::measure in this iteration (the
                        \* initialization counts as one)
    polled,             \* a main-loop iteration has completed
    repeat              \* this iteration has the buttons, and (from the
                        \* measurement on) the level, of the one before

storeVars == <<RGB_LEVELS, FRAME_RATE, rgbLock, frLock>>

rgbVars == <<pcRgb, rgbLevels, tick_time, current_frame_rate, snap, led, pins,
             on_time, off_level, off_time, waited>>

uiVars == <<pcUi, uiInit, uiLevels, uiFrameRate, button_a_pressed,
            button_b_pressed, level, state_changed, new_rate, shows>>

histVars == <<lvComplete, lvOwed, frOwed>>

envVars == <<session, buf>>

uiHist == <<initial_level, samples, polled, repeat>>

current == <<lvCurrent, frCurrent, firstSince>>

vars == <<storeVars, rgbVars, uiVars, histVars, envVars, phases, uiHist,
          current>>

(***************************************************************************)
(* main.rs: statics, Rgb::new, Ui::new, join(rgb.run(), ui.run())           *)
(***************************************************************************)
Init ==
    /\ RGB_LEVELS = RGB_LEVELS_INIT
    /\ FRAME_RATE = FRAME_RATE_INIT
    /\ rgbLock = "free"
    /\ frLock = "free"
    /\ pcRgb = "lock_levels"
    /\ rgbLevels = RGB_NEW_LEVELS
    /\ tick_time = frame_tick_time(RGB_NEW_FRAME_RATE)
    /\ current_frame_rate = RGB_NEW_FRAME_RATE
    /\ snap = RGB_NEW_LEVELS
    /\ led = 0
    /\ pins = Triple(FALSE, FALSE, FALSE)
    /\ on_time = 0
    /\ off_level = 0
    /\ off_time = 0
    /\ waited = 0
    /\ pcUi = "init_sample"
    /\ uiInit = TRUE
    /\ uiLevels = UI_DEFAULT_LEVELS
    /\ uiFrameRate = UI_DEFAULT_FRAME_RATE
    /\ button_a_pressed = FALSE
    /\ button_b_pressed = FALSE
    /\ level = 0
    /\ state_changed = FALSE
    /\ new_rate = 0
    /\ shows = 0
    /\ session \in Sessions
    /\ buf = 0
    /\ lvComplete = RGB_LEVELS_INIT
    /\ lvOwed = FALSE
    /\ frOwed = FALSE
    /\ lvCurrent = TRUE
    /\ frCurrent = TRUE
    /\ firstSince = <<>>
    /\ phases = <<>>
    /\ initial_level = 0
    /\ samples = 0
    /\ polled = FALSE
    /\ repeat = FALSE

(***************************************************************************)
(* Rgb task: rgb.rs Rgb::run, Rgb::step, with main.rs get_rgb_levels and    *)
(* get_frame_rate inlined at their call sites.  The copy of the [u32; 3]    *)
(* out of the mutex is one step per element.                                *)
(***************************************************************************)
\* variant: the reader does not wait for the mutex to be free
RgbLockLevels_NoWait ==
    /\ pcRgb = "lock_levels"
    /\ rgbLock' = "rgb"
    /\ pcRgb' = "read0"
    /\ UNCHANGED <<current, phases, uiHist,
                   RGB_LEVELS, FRAME_RATE, frLock, rgbLevels, tick_time,
                   current_frame_rate, snap, led, pins, on_time, off_level,
                   off_time, waited, uiVars, envVars, lvComplete,
                   lvOwed, frOwed>>

\* main.rs:65  RGB_LEVELS.lock().await (called from rgb.rs:99)
RgbLockLevels ==
    /\ pcRgb = "lock_levels"
    /\ rgbLock = "free"
    /\ rgbLock' = "rgb"
    /\ pcRgb' = "read0"
    /\ UNCHANGED <<current, phases, uiHist,
                   RGB_LEVELS, FRAME_RATE, frLock, rgbLevels, tick_time,
                   current_frame_rate, snap, led, pins, on_time, off_level,
                   off_time, waited, uiVars, envVars, lvComplete,
                   lvOwed, frOwed>>

ReadIndex == CASE pcRgb = "read0" -> 0 [] pcRgb = "read1" -> 1 [] OTHER -> 2

ReadNext == CASE pcRgb = "read0" -> "read1" [] pcRgb = "read1" -> "read2"
              [] OTHER -> "ret_levels"

\* main.rs:66  *rgb_levels, element by element
RgbCopyLevels ==
    /\ pcRgb \in {"read0", "read1", "read2"}
    /\ snap' = [snap EXCEPT ![ReadIndex] = RGB_LEVELS[ReadIndex]]
    /\ pcRgb' = ReadNext
    /\ UNCHANGED <<current, phases, uiHist,
                   storeVars, rgbLevels, tick_time, current_frame_rate, led,
                   pins, on_time, off_level, off_time, waited, uiVars, envVars,
                   histVars>>

\* variant: the guard outlives get_rgb_levels, the mutex stays locked
RgbReturnLevels_KeepsGuard ==
    /\ pcRgb = "ret_levels"
    /\ rgbLevels' = snap
    /\ pcRgb' = "lock_rate"
    /\ lvOwed' = (snap # lvComplete)
    /\ lvCurrent' = TRUE
    /\ firstSince' = <<>>
    /\ UNCHANGED <<frCurrent, phases, uiHist,
                   storeVars, tick_time, current_frame_rate, snap, led, pins,
                   on_time, off_level, off_time, waited, uiVars, envVars,
                   lvComplete, frOwed>>

\* main.rs:67 (the guard drops) and rgb.rs:99  self.levels = ...
RgbReturnLevels ==
    /\ pcRgb = "ret_levels"
    /\ rgbLock' = "free"
    /\ rgbLevels' = snap
    /\ pcRgb' = "lock_rate"
    /\ lvOwed' = (snap # lvComplete)
    /\ lvCurrent' = TRUE
    /\ firstSince' = <<>>
    /\ UNCHANGED <<frCurrent, phases, uiHist,
                   RGB_LEVELS, FRAME_RATE, frLock, tick_time,
                   current_frame_rate, snap, led, pins, on_time, off_level,
                   off_time, waited, uiVars, envVars, lvComplete, frOwed>>

\* main.rs:85  FRAME_RATE.lock().await (called from rgb.rs:102)
RgbLockRate ==
    /\ pcRgb = "lock_rate"
    /\ frLock = "free"
    /\ frLock' = "rgb"
    /\ pcRgb' = "read_rate"
    /\ UNCHANGED <<current, phases, uiHist,
                   RGB_LEVELS, FRAME_RATE, rgbLock, rgbLevels, tick_time,
                   current_frame_rate, snap, led, pins, on_time, off_level,
                   off_time, waited, uiVars, envVars, lvComplete,
                   lvOwed, frOwed>>

\* main.rs:86-87 and rgb.rs:102-106: read the rate, drop the guard, update
\* tick_time, enter the scan loop.  frame_tick_time(0) panics.
RgbReadRate ==
    /\ pcRgb = "read_rate"
    /\ current_frame_rate' = FRAME_RATE
    /\ frLock' = "free"
    /\ frOwed' = (current_frame_rate' # FRAME_RATE)
    /\ IF FRAME_RATE = 0
       THEN /\ pcRgb' = "panicked"
            /\ UNCHANGED <<tick_time, led, waited>>
       ELSE /\ LET expected_tick_time == frame_tick_time(FRAME_RATE)
               IN  tick_time' = IF tick_time # expected_tick_time
                                THEN expected_tick_time ELSE tick_time
            /\ led' = 0
            /\ waited' = 0
            /\ pcRgb' = "step"
    /\ frCurrent' = TRUE
    /\ UNCHANGED <<lvCurrent, firstSince, phases, uiHist,
                   RGB_LEVELS, FRAME_RATE, rgbLock, rgbLevels, snap, pins,
                   on_time, off_level, off_time, uiVars, envVars, lvComplete, lvOwed>>

\* variant: the off phase counts from LEVELS - 1
OffPhase_OffByOne(lv) ==
    LET ol == LEVELS - 1 - lv
    IN  IF ol > 0 THEN <<ol, ol * tick_time, "off_wait">>
        ELSE <<ol, 0, "step_done">>

\* rgb.rs:81-85  the off phase of Rgb::step for a channel at level lv:
\* <<off_level, off_time, next position>>
OffPhase(lv) ==
    LET ol == LEVELS - lv
    IN  IF ol > 0 THEN <<ol, ol * tick_time, "off_wait">>
        ELSE <<ol, 0, "step_done">>

\* the record of the timed waits of an iteration, with the off wait of
\* channel l added when Rgb::step reaches it
Timed(ph, l, pos) == IF pos = "off_wait" THEN Append(ph, <<l, "off">>) ELSE ph

\* variant: the on phase is not skipped at level 0
RgbStep_AlwaysPulses ==
    /\ pcRgb = "step"
    /\ pins' = [pins EXCEPT ![led] = TRUE]
    /\ on_time' = rgbLevels[led] * tick_time
    /\ pcRgb' = "on_wait"
    /\ phases' = Append(phases, <<led, "on">>)
    /\ UNCHANGED <<current, uiHist, storeVars, rgbLevels, tick_time,
                   current_frame_rate, snap, led, waited, off_level, off_time,
                   uiVars, envVars, histVars>>

\* rgb.rs:70-76 (and 81-84 when the on phase is skipped)
RgbStep ==
    /\ pcRgb = "step"
    /\ LET lv == rgbLevels[led]
       IN  IF lv > 0
           THEN /\ pins' = [pins EXCEPT ![led] = TRUE]
                /\ on_time' = lv * tick_time
                /\ pcRgb' = "on_wait"
                /\ phases' = Append(phases, <<led, "on">>)
                /\ UNCHANGED <<off_level, off_time>>
           ELSE /\ on_time' = 0
                /\ off_level' = OffPhase(lv)[1]
                /\ off_time' = OffPhase(lv)[2]
                /\ pcRgb' = OffPhase(lv)[3]
                /\ phases' = Timed(phases, led, OffPhase(lv)[3])
                /\ UNCHANGED pins
    /\ UNCHANGED <<current, uiHist,
                   storeVars, rgbLevels, tick_time, current_frame_rate, snap,
                   led, waited, uiVars, envVars, histVars>>

\* variant: the pin is left high after the on wait
RgbOnDone_NoSetLow ==
    /\ pcRgb = "on_wait"
    /\ waited' = waited + on_time
    /\ off_level' = OffPhase(rgbLevels[led])[1]
    /\ off_time' = OffPhase(rgbLevels[led])[2]
    /\ pcRgb' = OffPhase(rgbLevels[led])[3]
    /\ phases' = Timed(phases, led, OffPhase(rgbLevels[led])[3])
    /\ UNCHANGED <<current, uiHist, storeVars, rgbLevels, tick_time,
                   current_frame_rate, snap, led, on_time, pins, uiVars,
                   envVars, histVars>>

\* rgb.rs:76-84  the on timer fires: set_low, then the off phase
RgbOnDone ==
    /\ pcRgb = "on_wait"
    /\ waited' = waited + on_time
    /\ pins' = [pins EXCEPT ![led] = FALSE]
    /\ off_level' = OffPhase(rgbLevels[led])[1]
    /\ off_time' = OffPhase(rgbLevels[led])[2]
    /\ pcRgb' = OffPhase(rgbLevels[led])[3]
    /\ phases' = Timed(phases, led, OffPhase(rgbLevels[led])[3])
    /\ UNCHANGED <<current, uiHist,
                   storeVars, rgbLevels, tick_time, current_frame_rate, snap,
                   led, on_time, uiVars, envVars, histVars>>

\* variant: the scan loop goes from red straight to blue
RgbOffDone_SkipsGreen ==
    /\ pcRgb \in {"off_wait", "step_done"}
    /\ waited' = waited + (IF pcRgb = "off_wait" THEN off_time ELSE 0)
    /\ on_time' = 0
    /\ off_level' = 0
    /\ off_time' = 0
    /\ IF led < 2
       THEN /\ led' = 2
            /\ pcRgb' = "step"
            /\ UNCHANGED <<lvOwed, frOwed, phases>>
       ELSE /\ led' = 0
            /\ pcRgb' = "lock_levels"
            /\ phases' = <<>>
            /\ lvOwed' = (rgbLevels # lvComplete)
            /\ frOwed' = (current_frame_rate # FRAME_RATE)
    /\ UNCHANGED <<current, uiHist, storeVars, rgbLevels, tick_time,
                   current_frame_rate, snap, pins, uiVars, envVars, lvComplete>>

\* variant: the snapshot is taken once, before the outer loop
RgbOffDone_NoResnapshot ==
    /\ pcRgb \in {"off_wait", "step_done"}
    /\ waited' = IF led < 2
                 THEN waited + (IF pcRgb = "off_wait" THEN off_time ELSE 0)
                 ELSE 0
    /\ on_time' = 0
    /\ off_level' = 0
    /\ off_time' = 0
    /\ led' = IF led < 2 THEN led + 1 ELSE 0
    /\ pcRgb' = "step"
    /\ phases' = IF led < 2 THEN phases ELSE <<>>
    /\ IF led < 2
       THEN UNCHANGED <<lvOwed, frOwed>>
       ELSE /\ lvOwed' = (rgbLevels # lvComplete)
            /\ frOwed' = (current_frame_rate # FRAME_RATE)
    /\ UNCHANGED <<current, uiHist,
                   storeVars, rgbLevels, tick_time, current_frame_rate, snap,
                   pins, uiVars, envVars, lvComplete>>

\* rgb.rs:84-86 and 109-112: the off timer fires, step returns; next channel
\* or next iteration of the outer loop
RgbOffDone ==
    /\ pcRgb \in {"off_wait", "step_done"}
    /\ waited' = waited + (IF pcRgb = "off_wait" THEN off_time ELSE 0)
    /\ on_time' = 0
    /\ off_level' = 0
    /\ off_time' = 0
    /\ IF led < 2
       THEN /\ led' = led + 1
            /\ pcRgb' = "step"
            /\ UNCHANGED <<lvOwed, frOwed, phases>>
       ELSE /\ led' = 0
            /\ pcRgb' = "lock_levels"
            /\ phases' = <<>>
            /\ lvOwed' = (rgbLevels # lvComplete)
            /\ frOwed' = (current_frame_rate # FRAME_RATE)
    /\ UNCHANGED <<current, uiHist,
                   storeVars, rgbLevels, tick_time, current_frame_rate, snap,
                   pins, uiVars, envVars, lvComplete>>

RgbNext ==
    \/ RgbLockLevels
    \/ RgbCopyLevels
    \/ RgbReturnLevels
    \/ RgbLockRate
    \/ RgbReadRate
    \/ RgbStep
    \/ RgbOnDone
    \/ RgbOffDone

(***************************************************************************)
(* Ui task: ui.rs Ui::run, with main.rs set_rgb_levels and set_frame_rate   *)
(* inlined at their call sites.  The closure *rgb = self.state.levels       *)
(* stores one element per step.                                             *)
(***************************************************************************)
\* a panic (panic_rtt_target) halts the program, so the Ui task stops too
Running == pcRgb # "panicked"

\* UiState::show (ui.rs:30-38) emits the state to the display
Show == shows' = shows + 1

\* variant: the first measurement is taken but the default rate is kept
UiInitMeasure_KeepsDefault ==
    /\ Running
    /\ pcUi = "init_sample"
    /\ \E lv \in KnobLevels[session] : initial_level' = lv
    /\ samples' = samples + 1
    /\ pcUi' = "lock_levels"
    /\ UNCHANGED <<polled, repeat, current, phases, storeVars, rgbVars,
                   uiInit, uiLevels, uiFrameRate, button_a_pressed,
                   button_b_pressed, level, state_changed, new_rate, shows,
                   envVars, histVars>>

\* ui.rs:124-125  the first measurement sets the local frame rate
UiInitMeasure ==
    /\ Running
    /\ pcUi = "init_sample"
    /\ \E lv \in KnobLevels[session] :
         /\ initial_level' = lv
         /\ uiFrameRate' = level_to_frame_rate(lv)
    /\ samples' = samples + 1
    /\ pcUi' = "lock_levels"
    /\ UNCHANGED <<polled, repeat>>
    /\ UNCHANGED <<current, phases,
                   storeVars, rgbVars, uiInit, uiLevels, button_a_pressed,
                   button_b_pressed, level, state_changed, new_rate, shows,
                   envVars, histVars>>

\* main.rs:77  RGB_LEVELS.lock().await (called from ui.rs:128 and ui.rs:184)
UiLockLevels ==
    /\ Running
    /\ pcUi = "lock_levels"
    /\ rgbLock = "free"
    /\ rgbLock' = "ui"
    /\ pcUi' = "write0"
    /\ UNCHANGED <<current, phases, uiHist,
                   RGB_LEVELS, FRAME_RATE, frLock, rgbVars, uiInit, uiLevels,
                   uiFrameRate, button_a_pressed, button_b_pressed, level,
                   state_changed, new_rate, shows, envVars, histVars>>

WriteIndex == CASE pcUi = "write0" -> 0 [] pcUi = "write1" -> 1 [] OTHER -> 2

\* variant: the copy stops before the blue element
WriteNext_SkipsBlue == CASE pcUi = "write0" -> "write1" [] OTHER -> "ret_set_levels"

WriteNext == CASE pcUi = "write0" -> "write1" [] pcUi = "write1" -> "write2"
               [] OTHER -> "ret_set_levels"

\* main.rs:78 with ui.rs:129 / ui.rs:185  *rgb = self.state.levels
UiStoreLevels ==
    /\ Running
    /\ pcUi \in {"write0", "write1", "write2"}
    /\ RGB_LEVELS' = [RGB_LEVELS EXCEPT ![WriteIndex] = uiLevels[WriteIndex]]
    /\ pcUi' = WriteNext
    /\ UNCHANGED <<current, phases, uiHist,
                   FRAME_RATE, rgbLock, frLock, rgbVars, uiInit, uiLevels,
                   uiFrameRate, button_a_pressed, button_b_pressed, level,
                   state_changed, new_rate, shows, envVars, histVars>>

\* variant: the guard of set_rgb_levels is never dropped
UiReturnSetLevels_KeepsGuard ==
    /\ Running
    /\ pcUi = "ret_set_levels"
    /\ lvComplete' = uiLevels
    /\ IF uiInit
       THEN /\ new_rate' = uiFrameRate
            /\ pcUi' = "lock_rate"
            /\ UNCHANGED shows
       ELSE /\ Show
            /\ pcUi' = "poll_wait"
            /\ UNCHANGED new_rate
    /\ lvCurrent' = FALSE
    /\ firstSince' = IF ~uiInit /\ firstSince = <<>> THEN uiLevels ELSE firstSince
    /\ UNCHANGED <<frCurrent, phases, uiHist, storeVars, rgbVars, uiInit,
                   uiLevels, uiFrameRate, button_a_pressed, button_b_pressed,
                   level, state_changed, envVars, lvOwed, frOwed>>

\* main.rs:79 (the guard drops); then ui.rs:132 in the initialization, or
\* ui.rs:189 show() and the poll wait in the main loop
UiReturnSetLevels ==
    /\ Running
    /\ pcUi = "ret_set_levels"
    /\ rgbLock' = "free"
    /\ lvComplete' = uiLevels
    /\ IF uiInit
       THEN /\ new_rate' = uiFrameRate
            /\ pcUi' = "lock_rate"
            /\ UNCHANGED shows
       ELSE /\ Show
            /\ pcUi' = "poll_wait"
            /\ UNCHANGED new_rate
    /\ lvCurrent' = FALSE
    /\ firstSince' = IF ~uiInit /\ firstSince = <<>> THEN uiLevels ELSE firstSince
    /\ UNCHANGED <<frCurrent, phases, uiHist,
                   RGB_LEVELS, FRAME_RATE, frLock, rgbVars, uiInit, uiLevels,
                   uiFrameRate, button_a_pressed, button_b_pressed, level,
                   state_changed, envVars, lvOwed, frOwed>>

\* main.rs:94  FRAME_RATE.lock().await (called from ui.rs:132 and ui.rs:154)
UiLockRate ==
    /\ Running
    /\ pcUi = "lock_rate"
    /\ frLock = "free"
    /\ frLock' = "ui"
    /\ pcUi' = "write_rate"
    /\ UNCHANGED <<current, phases, uiHist,
                   RGB_LEVELS, FRAME_RATE, rgbLock, rgbVars, uiInit, uiLevels,
                   uiFrameRate, button_a_pressed, button_b_pressed, level,
                   state_changed, new_rate, shows, envVars, histVars>>

\* main.rs:95  *frame_rate = new_rate: the value the store holds afterwards
set_frame_rate(old_rate, rate) == rate

\* variant: the levels are published only when button A is held
AfterMatch_OnlyButtonA(changed) ==
    IF changed
    THEN IF button_a_pressed
         THEN <<"lock_levels", FALSE>>
         ELSE <<"poll_wait", TRUE>>
    ELSE <<"poll_wait", FALSE>>

\* variant: the levels are published whenever the state changed
AfterMatch_AlwaysPush(changed) ==
    IF changed THEN <<"lock_levels", FALSE>> ELSE <<"poll_wait", FALSE>>

\* variant: show() is outside the if state_changed
AfterMatch_AlwaysShow(changed) ==
    IF changed
    THEN IF button_a_pressed \/ button_b_pressed
         THEN <<"lock_levels", FALSE>>
         ELSE <<"poll_wait", TRUE>>
    ELSE <<"poll_wait", TRUE>>

\* ui.rs:182-193  after the match: publish the levels if a button is held,
\* show, then wait.  <<next position, shows one more>>
AfterMatch(changed) ==
    IF changed
    THEN IF button_a_pressed \/ button_b_pressed
         THEN <<"lock_levels", FALSE>>
         ELSE <<"poll_wait", TRUE>>
    ELSE <<"poll_wait", FALSE>>

\* main.rs:95-96 (store, the guard drops); then ui.rs:135 show() in the
\* initialization, or ui.rs:155 and 182-193 in the main loop
UiStoreRate ==
    /\ Running
    /\ pcUi = "write_rate"
    /\ FRAME_RATE' = set_frame_rate(FRAME_RATE, new_rate)
    /\ frLock' = "free"
    /\ IF uiInit
       THEN /\ uiInit' = FALSE
            /\ Show
            /\ pcUi' = "loop"
            /\ UNCHANGED state_changed
       ELSE /\ state_changed' = TRUE
            /\ pcUi' = AfterMatch(TRUE)[1]
            /\ shows' = IF AfterMatch(TRUE)[2] THEN shows + 1 ELSE shows
            /\ UNCHANGED uiInit
    /\ frCurrent' = FALSE
    /\ UNCHANGED <<lvCurrent, firstSince, phases, uiHist,
                   RGB_LEVELS, rgbLock, rgbVars, uiLevels, uiFrameRate,
                   button_a_pressed, button_b_pressed, level, new_rate,
                   envVars, lvComplete, lvOwed, frOwed>>

\* ui.rs:139-143  read the buttons, start the measurement
UiReadButtons ==
    /\ Running
    /\ pcUi = "loop"
    /\ \E b \in Buttons(session) :
         /\ button_a_pressed' = b[1]
         /\ button_b_pressed' = b[2]
         /\ repeat' = (polled /\ b = <<button_a_pressed, button_b_pressed>>)
    /\ shows' = 0
    /\ samples' = 0
    /\ initial_level' = 0
    /\ pcUi' = "sample"
    /\ UNCHANGED polled
    /\ UNCHANGED <<current, phases,
                   storeVars, rgbVars, uiInit, uiLevels, uiFrameRate, level,
                   state_changed, new_rate, envVars, histVars>>

\* ui.rs:148-179  the arm of the match the button pair selects
Mode(a, b) ==
    CASE ~a /\ ~b -> "FrameRate"
      [] a /\ ~b  -> "Blue"
      [] ~a /\ b  -> "Green"
      [] a /\ b   -> "Red"

\* variant: the blue and green arms are exchanged
Channel_Swapped(mode) ==
    CASE mode = "Blue"  -> 1
      [] mode = "Green" -> 2
      [] mode = "Red"   -> 0

\* ui.rs:160-175  the index into state.levels each brightness arm uses
Channel(mode) ==
    CASE mode = "Blue"  -> 2
      [] mode = "Green" -> 1
      [] mode = "Red"   -> 0

\* ui.rs:143-193  the measurement completes; the match updates the local
\* state; what follows runs up to the next suspension point
UiMeasure ==
    /\ Running
    /\ pcUi = "sample"
    /\ \E lv \in KnobLevels[session] :
         LET mode == Mode(button_a_pressed, button_b_pressed)
         IN  /\ level' = lv
             /\ repeat' = (repeat /\ lv = level)
             /\ IF mode = "FrameRate"
                THEN LET new_frame_rate == level_to_frame_rate(lv)
                     IN  IF new_frame_rate # uiFrameRate
                         THEN /\ uiFrameRate' = new_frame_rate
                              /\ new_rate' = new_frame_rate
                              /\ state_changed' = FALSE
                              /\ pcUi' = "lock_rate"
                              /\ UNCHANGED <<uiLevels, shows>>
                         ELSE /\ state_changed' = FALSE
                              /\ pcUi' = AfterMatch(FALSE)[1]
                              /\ shows' = IF AfterMatch(FALSE)[2]
                                          THEN shows + 1 ELSE shows
                              /\ UNCHANGED <<uiLevels, uiFrameRate, new_rate>>
                ELSE LET c       == Channel(mode)
                         changed == lv # uiLevels[c]
                     IN  /\ uiLevels' = IF changed
                                        THEN [uiLevels EXCEPT ![c] = lv]
                                        ELSE uiLevels
                         /\ state_changed' = changed
                         /\ pcUi' = AfterMatch(changed)[1]
                         /\ shows' = IF AfterMatch(changed)[2]
                                     THEN shows + 1 ELSE shows
                         /\ UNCHANGED <<uiFrameRate, new_rate>>
    /\ samples' = samples + 1
    /\ UNCHANGED <<current, phases, initial_level, polled,
                   storeVars, rgbVars, uiInit, button_a_pressed,
                   button_b_pressed, envVars, histVars>>

\* ui.rs:193  the 50 ms timer fires
UiPollDone ==
    /\ Running
    /\ pcUi = "poll_wait"
    /\ pcUi' = "loop"
    /\ polled' = TRUE
    /\ UNCHANGED <<initial_level, samples, repeat>>
    /\ UNCHANGED <<current, phases,
                   storeVars, rgbVars, uiInit, uiLevels, uiFrameRate,
                   button_a_pressed, button_b_pressed, level, state_changed,
                   new_rate, shows, envVars, histVars>>

UiNext ==
    \/ UiInitMeasure
    \/ UiLockLevels
    \/ UiStoreLevels
    \/ UiReturnSetLevels
    \/ UiLockRate
    \/ UiStoreRate
    \/ UiReadButtons
    \/ UiMeasure
    \/ UiPollDone

(***************************************************************************)
(* main.rs:137  join(rgb.run(), ui.run()).  The executor switches tasks    *)
(* only at an await; here the tasks interleave at every step, which         *)
(* includes every schedule of the executor and those of a preemptive one.   *)
(***************************************************************************)
Next == RgbNext \/ UiNext

Spec == Init /\ [][Next]_vars

(***************************************************************************)
(* The executor (embassy_executor, main.rs:102) polls every task that has   *)
(* been woken: a task whose timer has expired or whose measurement has      *)
(* completed runs again, so each task's steps are weakly fair.  A task that *)
(* waits for a mutex is woken when the guard drops, and the other task      *)
(* reaches a timed wait (rgb.rs:76, rgb.rs:84, ui.rs:193) before it locks   *)
(* the same mutex again, so the waiter is polled while the mutex is free:   *)
(* the lock steps are strongly fair.                                        *)
(***************************************************************************)
Fairness ==
    /\ WF_vars(RgbNext)
    /\ WF_vars(UiNext)
    /\ SF_vars(RgbLockLevels)
    /\ SF_vars(RgbLockRate)
    /\ SF_vars(UiLockLevels)
    /\ SF_vars(UiLockRate)

\* the operator keeps moving the knob between two positions, with no button
\* held or with button A held: the frame rate, or the blue level, is
\* published again and again
InitLive == Init /\ session \in {<<"hold", 0>>, <<"hold", 1>>}

SpecLive == InitLive /\ [][Next]_vars /\ Fairness

(***************************************************************************)
(* Knob::measure on its own: the ADC has delivered any i16 sample into buf  *)
(* (knob.rs:49-51), the conversion of knob.rs:54-65 is then applied.        *)
(***************************************************************************)
InitKnob ==
    /\ RGB_LEVELS = RGB_LEVELS_INIT
    /\ FRAME_RATE = FRAME_RATE_INIT
    /\ rgbLock = "free"
    /\ frLock = "free"
    /\ pcRgb = "lock_levels"
    /\ rgbLevels = RGB_NEW_LEVELS
    /\ tick_time = frame_tick_time(RGB_NEW_FRAME_RATE)
    /\ current_frame_rate = RGB_NEW_FRAME_RATE
    /\ snap = RGB_NEW_LEVELS
    /\ led = 0
    /\ pins = Triple(FALSE, FALSE, FALSE)
    /\ on_time = 0
    /\ off_level = 0
    /\ off_time = 0
    /\ waited = 0
    /\ pcUi = "converting"
    /\ uiInit = TRUE
    /\ uiLevels = UI_DEFAULT_LEVELS
    /\ uiFrameRate = UI_DEFAULT_FRAME_RATE
    /\ button_a_pressed = FALSE
    /\ button_b_pressed = FALSE
    /\ level = 0
    /\ state_changed = FALSE
    /\ new_rate = 0
    /\ shows = 0
    /\ session = <<"tune", 0>>
    /\ buf \in I16_MIN .. RAW_MAX
    /\ lvComplete = RGB_LEVELS_INIT
    /\ lvOwed = FALSE
    /\ frOwed = FALSE
    /\ lvCurrent = TRUE
    /\ frCurrent = TRUE
    /\ firstSince = <<>>
    /\ phases = <<>>
    /\ initial_level = 0
    /\ samples = 0
    /\ polled = FALSE
    /\ repeat = FALSE

\* knob.rs:54-65
KnobConvert ==
    /\ pcUi = "converting"
    /\ level' = measure(buf)
    /\ pcUi' = "converted"
    /\ UNCHANGED <<current, phases, uiHist,
                   storeVars, rgbVars, uiInit, uiLevels, uiFrameRate,
                   button_a_pressed, button_b_pressed, state_changed,
                   new_rate, shows, envVars, histVars>>

\* ui.rs:125 / ui.rs:151  the level just measured is mapped to a frame rate
KnobToFrameRate ==
    /\ pcUi = "converted"
    /\ uiFrameRate' = level_to_frame_rate(level)
    /\ pcUi' = "rated"
    /\ UNCHANGED <<current, phases, uiHist,
                   storeVars, rgbVars, uiInit, uiLevels, button_a_pressed,
                   button_b_pressed, level, state_changed, new_rate, shows,
                   envVars, histVars>>

NextKnob == KnobConvert \/ KnobToFrameRate

SpecKnob == InitKnob /\ [][NextKnob]_vars

(***************************************************************************)
(* The store with a writer that is not trusted to stay in 10..160:          *)
(* set_frame_rate takes any u64 (main.rs:93), so the frame-rate arm of      *)
(* ui.rs:149-157 is also run with a new_frame_rate that does not come from  *)
(* level_to_frame_rate.                                                     *)
(***************************************************************************)
UntrustedRates == {0, 200}

UiUntrustedRate ==
    /\ Running
    /\ pcUi = "sample"
    /\ Mode(button_a_pressed, button_b_pressed) = "FrameRate"
    /\ \E new_frame_rate \in UntrustedRates :
         /\ new_frame_rate # uiFrameRate
         /\ uiFrameRate' = new_frame_rate
         /\ new_rate' = new_frame_rate
    /\ state_changed' = FALSE
    /\ pcUi' = "lock_rate"
    /\ samples' = samples + 1
    /\ repeat' = FALSE
    /\ UNCHANGED <<current, phases, initial_level, polled,
                   storeVars, rgbVars, uiInit, uiLevels, button_a_pressed,
                   button_b_pressed, level, shows, envVars, histVars>>

InitStore == Init /\ session = <<"tune", 3>>

NextStore == RgbNext \/ UiNext \/ UiUntrustedRate

SpecStore == InitStore /\ [][NextStore]_vars

(***************************************************************************)
(* Properties                                                               *)
(***************************************************************************)
Stepping == pcRgb \in {"step", "on_wait", "off_wait", "step_done"}

Rates == {10 * k : k \in 1 .. LEVELS}

Abs(n) == IF n < 0 THEN -n ELSE n

\* C1: the triple get_rgb_levels is about to return is the triple of the
\* last completed set_rgb_levels call, or the initial triple if there was
\* none: never a mix of elements of two writes.
C1_AtomicTriple == pcRgb = "ret_levels" => snap = lvComplete

\* C1 witness: the reader has copied a published triple while the writer
\* waits for the mutex with a different one.
C1_Witness ==
    /\ pcRgb = "ret_levels"
    /\ rgbLock = "rgb"
    /\ snap # RGB_LEVELS_INIT
    /\ pcUi = "lock_levels"
    /\ uiLevels # snap

\* C2: a task that is suspended in a sensor sample, a timed wait or a wait
\* for a mutex holds neither mutex; a mutex is held only inside the
\* accessor that locked it.
C2_NoLockAcrossSuspension ==
    /\ pcRgb \in {"lock_levels", "lock_rate", "on_wait", "off_wait", "step", "step_done"}
         => rgbLock # "rgb" /\ frLock # "rgb"
    /\ pcUi \in {"init_sample", "sample", "poll_wait", "loop", "lock_levels", "lock_rate"}
         => rgbLock # "ui" /\ frLock # "ui"
    /\ rgbLock = "rgb" => pcRgb \in {"read0", "read1", "read2", "ret_levels"}
    /\ frLock = "rgb" => pcRgb = "read_rate"
    /\ rgbLock = "ui" => pcUi \in {"write0", "write1", "write2", "ret_set_levels"}
    /\ frLock = "ui" => pcUi = "write_rate"

\* C2 witness: both tasks are in timed waits after each has used its
\* accessors, and both mutexes are free.
C2_Witness ==
    /\ pcRgb = "on_wait"
    /\ pcUi = "poll_wait"
    /\ state_changed
    /\ rgbLevels = uiLevels
    /\ rgbLock = "free"
    /\ frLock = "free"

\* InputController has not yet stored anything in the shared state
UiBeforeFirstWrite == uiInit /\ pcUi \in {"init_sample", "lock_levels", "write0"}

\* C3 as stated: until InputController's first write the store holds
\* levels [15,15,15] and frame rate 100.
C3_Original ==
    UiBeforeFirstWrite =>
        /\ RGB_LEVELS = Triple(LEVELS - 1, LEVELS - 1, LEVELS - 1)
        /\ FRAME_RATE = 100

\* C3 amended: the store is created with levels [0,0,0] and frame rate 100;
\* until InputController's first write it holds exactly these, and every
\* snapshot the scheduler has taken by then is [0,0,0].  [15,15,15] is what
\* InputController's initialization writes.
C3_StoreStartsDark ==
    /\ UiBeforeFirstWrite =>
         /\ RGB_LEVELS = Triple(0, 0, 0)
         /\ FRAME_RATE = 100
         /\ rgbLevels = Triple(0, 0, 0)
         /\ snap = Triple(0, 0, 0)
    /\ uiInit /\ pcUi \in {"ret_set_levels", "lock_rate", "write_rate"} =>
         RGB_LEVELS = Triple(LEVELS - 1, LEVELS - 1, LEVELS - 1)

\* C3 witness: the scheduler has snapshotted and is in its blue step while
\* InputController has not written yet.
C3_Witness ==
    /\ UiBeforeFirstWrite
    /\ pcRgb = "off_wait"
    /\ led = 2
    /\ rgbLevels = Triple(0, 0, 0)

\* C4: in every channel step the on-wait plus the off-wait is LEVELS *
\* tick_time, off_level = LEVELS - level is at least 1, and the step never
\* ends without an off-wait.
C4_StepTimeConstant ==
    /\ pcRgb # "step_done"
    /\ pcRgb = "off_wait" =>
         /\ rgbLevels[led] \in 0 .. LEVELS - 1
         /\ on_time = rgbLevels[led] * tick_time
         /\ off_level = LEVELS - rgbLevels[led]
         /\ off_level >= 1
         /\ off_time = off_level * tick_time
         /\ on_time + off_time = LEVELS * tick_time
         /\ waited + off_time = (led + 1) * LEVELS * tick_time

\* C4 witness: an off-wait after an on-wait at a level strictly between 0
\* and LEVELS - 1.
C4_Witness ==
    /\ pcRgb = "off_wait"
    /\ rgbLevels[led] = 5
    /\ on_time > 0
    /\ off_time > on_time

\* C5: during the channel steps tick_time is 1_000_000 / (3 * frame_rate *
\* LEVELS) for the frame rate snapshotted in this iteration, a rate in
\* 10, 20 .. 160; the iteration waits 3 * LEVELS * tick_time in total, which
\* is within 3 * LEVELS - 1 microseconds of 1_000_000 / frame_rate.
C5_FramePeriod ==
    Stepping =>
        /\ current_frame_rate \in Rates
        /\ tick_time = MICROS_PER_SEC \div (3 * current_frame_rate * LEVELS)
        /\ Abs(3 * LEVELS * tick_time - MICROS_PER_SEC \div current_frame_rate)
             <= 3 * LEVELS - 1
        /\ (pcRgb = "off_wait" /\ led = 2) =>
             waited + off_time = 3 * LEVELS * tick_time

\* C5 witness: the last off-wait of an iteration that runs at 160 fps while
\* InputController has already stored another rate and other levels.
C5_Witness ==
    /\ pcRgb = "off_wait"
    /\ led = 2
    /\ current_frame_rate = 160
    /\ FRAME_RATE # current_frame_rate
    /\ waited + off_time = 3 * LEVELS * 130

\* C6: the stored frame rate is one of 10, 20 .. 160, so the scheduler never
\* divides by zero and tick_time is positive.
C6_FrameRatePositive ==
    /\ FRAME_RATE \in Rates
    /\ FRAME_RATE > 0
    /\ pcRgb # "panicked"
    /\ tick_time > 0

\* C6 witness: the lowest rate is stored and the scheduler runs with it.
C6_Witness ==
    /\ FRAME_RATE = 10
    /\ Stepping
    /\ current_frame_rate = 10
    /\ tick_time = 2083

\* C8: in the channel steps of an iteration the scheduler's levels and frame
\* rate are never older than the writes that had completed when the
\* iteration started, and tick_time is the one of that frame rate.
C8_BoundedStaleness ==
    Stepping =>
        /\ ~lvOwed
        /\ ~frOwed
        /\ tick_time = frame_tick_time(current_frame_rate)

\* C8 witness: an iteration starts its steps with a triple and a rate that
\* InputController published in its main loop.
C8_Witness ==
    /\ pcRgb = "step"
    /\ led = 0
    /\ ~uiInit
    /\ rgbLevels = lvComplete
    /\ rgbLevels # UI_DEFAULT_LEVELS
    /\ rgbLevels # RGB_LEVELS_INIT
    /\ current_frame_rate = FRAME_RATE
    /\ current_frame_rate # FRAME_RATE_INIT

\* C7 as stated: set_frame_rate called with a rate that is not strictly
\* positive leaves the stored rate as it was, and the scheduler never
\* computes tick_time from such a rate.
C7_Original ==
    /\ [][(pcUi = "write_rate" /\ new_rate <= 0 /\ pcUi' # "write_rate")
            => FRAME_RATE' = FRAME_RATE]_vars
    /\ [](pcRgb # "panicked")

\* integer form of the quantizer: min(15, max(0, floor((18 r - 20000) / 10000)))
QuantizeInt(r) ==
    LET q == ((LEVELS + MARGIN) * r - MARGIN * FULL_SCALE) \div FULL_SCALE
    IN  IF q < 0 THEN 0 ELSE IF q > LEVELS - 1 THEN LEVELS - 1 ELSE q

\* C9: for every i16 sample Knob::measure returns the integer form applied
\* to the sample clamped to [0, 0x7fff]; the level is in 0 .. LEVELS - 1,
\* it is 0 for every sample <= 0 and LEVELS - 1 for every sample >= 10000.
C9_Quantizer ==
    pcUi = "converted" =>
        /\ level = QuantizeInt(IF buf < 0 THEN 0 ELSE IF buf > 32767 THEN 32767 ELSE buf)
        /\ level \in 0 .. LEVELS - 1
        /\ buf <= 0 => level = 0
        /\ buf >= 10000 => level = LEVELS - 1

\* C9 witness: a negative sample, the sample at the exact boundary of level
\* 7, and the largest sample have been converted.
C9_Witness ==
    /\ pcUi = "converted"
    /\ \/ buf = -1 /\ level = 0
       \/ buf = 5000 /\ level = 7
       \/ buf = 32767 /\ level = 15

\* C10: in the main loop the button pair read in an iteration decides alone
\* what the iteration changes: (F,F) only the frame rate, (T,F) only blue
\* (index 2), (F,T) only green (index 1), (T,T) only red (index 0), both in
\* the local state and in the store; every pair is handled.
C10_ModeTable ==
    [][(~uiInit /\ pcUi # "loop" /\ pcUi # "poll_wait") =>
        LET a == button_a_pressed
            b == button_b_pressed
            c == IF a /\ b THEN 0 ELSE IF b THEN 1 ELSE 2
        IN  /\ (pcUi = "sample" /\ pcUi' # "sample") =>
                 /\ (~a /\ ~b) =>
                      /\ uiFrameRate' = (level' + 1) * 10
                      /\ uiLevels' = uiLevels
                 /\ (a \/ b) =>
                      /\ uiLevels' = [uiLevels EXCEPT ![c] = level']
                      /\ uiFrameRate' = uiFrameRate
                 /\ pcUi' \in {"lock_rate", "lock_levels", "poll_wait"}
            /\ pcUi # "sample" => (uiLevels' = uiLevels /\ uiFrameRate' = uiFrameRate)
            /\ FRAME_RATE' # FRAME_RATE => (~a /\ ~b)
            /\ \A i \in Leds : RGB_LEVELS'[i] # RGB_LEVELS[i] => ((a \/ b) /\ i = c)
       ]_vars

\* C10 witness: with only button B held the green level has just been
\* changed and the other two levels kept.
C10_Witness ==
    /\ ~uiInit
    /\ pcUi = "lock_levels"
    /\ ~button_a_pressed
    /\ button_b_pressed
    /\ uiLevels = Triple(LEVELS - 1, level, LEVELS - 1)
    /\ level # LEVELS - 1

\* C11: level_to_frame_rate(level) = (level + 1) * 10 for every level in
\* 0 .. 15; it maps 0 to 10 and 15 to 160, is strictly increasing, and is a
\* bijection from 0 .. 15 onto {10, 20, .., 160}.  The rate computed from a
\* measured level is the image of that level.
C11_RateMap ==
    /\ pcUi = "rated" =>
         /\ level \in 0 .. LEVELS - 1
         /\ uiFrameRate = (level + 1) * 10
         /\ uiFrameRate \in Rates
         /\ level = 0 => uiFrameRate = 10
         /\ level = LEVELS - 1 => uiFrameRate = 160
    /\ \A a \in 0 .. LEVELS - 1 : level_to_frame_rate(a) = (a + 1) * 10
    /\ \A a, b \in 0 .. LEVELS - 1 :
         a < b => level_to_frame_rate(a) < level_to_frame_rate(b)
    /\ {level_to_frame_rate(a) : a \in 0 .. LEVELS - 1} = Rates
    /\ Cardinality(Rates) = LEVELS

\* C11 witness: the highest level has been measured and mapped to 160 fps.
C11_Witness ==
    /\ pcUi = "rated"
    /\ level = LEVELS - 1
    /\ uiFrameRate = 160
    /\ buf = 9999

\* the locally tracked value of the parameter the buttons select
Selected ==
    IF ~button_a_pressed /\ ~button_b_pressed THEN uiFrameRate
    ELSE uiLevels[IF button_a_pressed /\ button_b_pressed THEN 0
                  ELSE IF button_b_pressed THEN 1 ELSE 2]

\* the value an iteration computes for that parameter from level lv
Computed(lv) ==
    IF ~button_a_pressed /\ ~button_b_pressed THEN (lv + 1) * 10 ELSE lv

\* C12: a main-loop iteration emits the state to the display exactly once
\* if the value it computed for the selected parameter differs from the
\* locally tracked one, and not at all otherwise; an iteration with the
\* buttons and the level of the iteration before it emits nothing and
\* writes nothing to the store.
C12_EmitOnChange ==
    /\ [][(~uiInit /\ pcUi = "sample" /\ pcUi' # "sample") =>
            /\ shows = 0
            /\ Computed(level') # Selected =>
                  /\ pcUi' \in {"lock_rate", "lock_levels"}
                  /\ shows' = 0
                  /\ ~repeat'
            /\ Computed(level') = Selected =>
                  /\ pcUi' = "poll_wait"
                  /\ shows' = 0
                  /\ ~state_changed'
                  /\ UNCHANGED <<RGB_LEVELS, FRAME_RATE, uiLevels, uiFrameRate>>
            /\ repeat' => Computed(level') = Selected
          ]_vars
    /\ [][(~uiInit /\ pcUi' = "poll_wait" /\ pcUi \notin {"sample", "poll_wait"})
            => (shows = 0 /\ shows' = 1 /\ state_changed')]_vars
    /\ [](~uiInit /\ pcUi \in {"lock_levels", "write0", "write1", "write2",
                                "ret_set_levels", "lock_rate", "write_rate"}
            => (shows = 0 /\ ~repeat))
    /\ [](pcUi = "poll_wait" =>
            /\ shows = (IF state_changed THEN 1 ELSE 0)
            /\ repeat => shows = 0)

\* C12 witness: the iteration before changed blue to 5 with button A held;
\* this one saw the same buttons and level and is in its poll wait without
\* having emitted anything.
C12_Witness ==
    /\ pcUi = "poll_wait"
    /\ repeat
    /\ shows = 0
    /\ button_a_pressed /\ ~button_b_pressed
    /\ level = 5
    /\ uiLevels = Triple(LEVELS - 1, LEVELS - 1, 5)
    /\ RGB_LEVELS = uiLevels

\* the channel the held buttons select (meaningful when one is held)
SelectedChannel ==
    IF button_a_pressed /\ button_b_pressed THEN 0
    ELSE IF button_b_pressed THEN 1 ELSE 2

Publishing == pcUi \in {"lock_levels", "write0", "write1", "write2", "ret_set_levels"}

\* C13: an iteration that sees buttons selecting channel c and a level v
\* different from the tracked level of c leaves the store with the previous
\* triple in which exactly element c is replaced by v, and leaves the frame
\* rate as it was; a scheduler cycle whose snapshot follows that write runs
\* with that triple and with the tick_time of the unchanged frame rate.
C13_ChannelUpdate ==
    /\ [][(~uiInit /\ pcUi = "sample" /\ pcUi' # "sample"
              /\ (button_a_pressed \/ button_b_pressed)
              /\ level' # uiLevels[SelectedChannel]) =>
            /\ uiLevels' = [RGB_LEVELS EXCEPT ![SelectedChannel] = level']
            /\ pcUi' = "lock_levels"
            /\ UNCHANGED <<RGB_LEVELS, FRAME_RATE, uiFrameRate>>
          ]_vars
    /\ [][(~uiInit /\ pcUi = "ret_set_levels" /\ pcUi' = "poll_wait") =>
            /\ level # lvComplete[SelectedChannel]
            /\ RGB_LEVELS' = [lvComplete EXCEPT ![SelectedChannel] = level]
            /\ \A i \in Leds \ {SelectedChannel} : RGB_LEVELS'[i] = lvComplete[i]
            /\ lvComplete' = RGB_LEVELS'
            /\ FRAME_RATE' = FRAME_RATE
          ]_vars
    /\ [][(~uiInit /\ Publishing) => FRAME_RATE' = FRAME_RATE]_vars
    /\ [](~uiInit /\ Publishing => FRAME_RATE = uiFrameRate)
    /\ [](Stepping /\ lvCurrent => rgbLevels = lvComplete)
    /\ [](Stepping /\ frCurrent =>
            tick_time = MICROS_PER_SEC \div (3 * FRAME_RATE * LEVELS))
    /\ [](Stepping /\ lvCurrent /\ frCurrent /\ pcUi = "poll_wait"
             /\ state_changed /\ (button_a_pressed \/ button_b_pressed) =>
            /\ rgbLevels = uiLevels
            /\ rgbLevels[SelectedChannel] = level
            /\ tick_time = MICROS_PER_SEC \div (3 * uiFrameRate * LEVELS))

\* C13 as stated: the scheduler cycle that starts next after such an
\* iteration runs with the triple that iteration published.
C13_Original ==
    [][(pcRgb = "ret_levels" /\ pcRgb' = "lock_rate" /\ firstSince # <<>>)
         => rgbLevels' = firstSince]_vars

\* C13 witness: with button A held and level 5 the defaults became
\* [15,15,5]; a scheduler cycle that started afterwards is in its blue step
\* with that triple and the tick_time of the frame rate set at startup.
C13_Witness ==
    /\ pcUi = "poll_wait"
    /\ state_changed
    /\ button_a_pressed /\ ~button_b_pressed
    /\ level = 5
    /\ RGB_LEVELS = Triple(LEVELS - 1, LEVELS - 1, 5)
    /\ pcRgb = "on_wait"
    /\ led = 2
    /\ lvCurrent /\ frCurrent
    /\ rgbLevels = RGB_LEVELS
    /\ on_time = 5 * tick_time
    /\ FRAME_RATE = 60
    /\ tick_time = 347

\* C14: under fair scheduling both tasks run forever: no state is a
\* deadlock or terminal, every wait for a mutex ends with the mutex
\* granted, every scheduler iteration completes and is followed by
\* another, and InputController polls infinitely often.
C14_BothRunForever ==
    /\ [](ENABLED Next)
    /\ [](pcRgb # "panicked")
    /\ [][/\ (pcRgb = "lock_levels" /\ pcRgb' # pcRgb) =>
               (pcRgb' = "read0" /\ rgbLock' = "rgb")
          /\ (pcRgb = "lock_rate" /\ pcRgb' # pcRgb) =>
               (pcRgb' = "read_rate" /\ frLock' = "rgb")
          /\ (pcUi = "lock_levels" /\ pcUi' # pcUi) =>
               (pcUi' = "write0" /\ rgbLock' = "ui")
          /\ (pcUi = "lock_rate" /\ pcUi' # pcUi) =>
               (pcUi' = "write_rate" /\ frLock' = "ui")
         ]_vars
    /\ []<>(pcRgb # "lock_levels")
    /\ []<>(pcRgb # "lock_rate")
    /\ []<>(pcUi # "lock_levels")
    /\ []<>(pcUi # "lock_rate")
    /\ []<>(pcRgb = "step" /\ led = 0)
    /\ []<>(pcRgb = "off_wait" /\ led = 2)
    /\ []<>(pcRgb = "lock_levels")
    /\ []<>(pcUi = "poll_wait")
    /\ []<>(pcUi = "sample")

\* C14 witness: the scheduler waits for the levels mutex while
\* InputController holds it in a main-loop iteration, after the scheduler
\* has completed at least one iteration with published levels.
C14_Witness ==
    /\ pcRgb = "lock_levels"
    /\ rgbLock = "ui"
    /\ ~uiInit
    /\ polled
    /\ pcUi = "write1"
    /\ rgbLevels # RGB_LEVELS_INIT
    /\ rgbLevels # UI_DEFAULT_LEVELS

\* C15: every element of the levels triple in the store, of the triple the
\* scheduler is using, of the copy it is taking and of InputController's
\* local triple lies in 0 .. LEVELS - 1.
C15_LevelsInRange ==
    \A i \in Leds :
        /\ RGB_LEVELS[i] \in 0 .. LEVELS - 1
        /\ rgbLevels[i] \in 0 .. LEVELS - 1
        /\ snap[i] \in 0 .. LEVELS - 1
        /\ uiLevels[i] \in 0 .. LEVELS - 1

\* C15 witness: with the knob near full scale the store holds the highest
\* level for every channel after blue was lowered and raised again, and
\* the scheduler still runs with the lower blue level.
C15_Witness ==
    /\ RGB_LEVELS = Triple(LEVELS - 1, LEVELS - 1, LEVELS - 1)
    /\ polled
    /\ Stepping
    /\ rgbLevels = Triple(LEVELS - 1, LEVELS - 1, LEVELS - 2)

\* InputController is inside a main-loop iteration that read no button
InFrameRateIteration ==
    /\ ~uiInit
    /\ pcUi \notin {"loop", "poll_wait"}
    /\ ~button_a_pressed /\ ~button_b_pressed

\* C16: a main-loop iteration in FrameRate mode (no button held) never
\* writes the channel levels: it does not call set_rgb_levels, and the
\* triple in the store and the local triple are unchanged by it, whether or
\* not it changed the frame rate.
C16_FrameRateKeepsLevels ==
    /\ [][InFrameRateIteration =>
            /\ RGB_LEVELS' = RGB_LEVELS
            /\ uiLevels' = uiLevels
            /\ lvComplete' = lvComplete
            /\ rgbLock' # "ui"
            /\ pcUi' \in {"sample", "lock_rate", "write_rate", "poll_wait"}
          ]_vars
    /\ [](InFrameRateIteration =>
            /\ pcUi \in {"sample", "lock_rate", "write_rate"}
            /\ rgbLock # "ui"
            /\ RGB_LEVELS = uiLevels)
    /\ [](~uiInit /\ pcUi = "poll_wait" /\ ~button_a_pressed
             /\ ~button_b_pressed => RGB_LEVELS = lvComplete)

\* C16 witness: an iteration with no button held is storing a changed
\* frame rate while the store holds levels published by an earlier
\* iteration.
C16_Witness ==
    /\ InFrameRateIteration
    /\ pcUi = "write_rate"
    /\ new_rate # FRAME_RATE
    /\ RGB_LEVELS = Triple(LEVELS - 1, LEVELS - 1, 5)
    /\ uiLevels = RGB_LEVELS

\* the timed waits of the step of channel l at level lv, in order
ChannelPhases(l, lv) ==
    IF lv > 0 THEN <<<<l, "on">>, <<l, "off">>>> ELSE <<<<l, "off">>>>

\* the timed waits of the steps of channels 0 .. n - 1
RECURSIVE ScanPhases(_, _)
ScanPhases(lv3, n) ==
    IF n = 0 THEN <<>>
    ELSE ScanPhases(lv3, n - 1) \o ChannelPhases(n - 1, lv3[n - 1])

\* C17: in every scheduler iteration the channels are stepped in the order
\* red, green, blue, each exactly once; in a step the on wait (between set
\* high and set low) comes before the off wait; the step of a channel
\* starts only when the off wait of the channel before it has finished.
C17_ScanOrder ==
    /\ [](~Stepping => phases = <<>>)
    /\ [](pcRgb = "step" => phases = ScanPhases(rgbLevels, led))
    /\ [](pcRgb = "on_wait" =>
            /\ rgbLevels[led] > 0
            /\ phases = Append(ScanPhases(rgbLevels, led), <<led, "on">>)
            /\ pins[led])
    /\ [](pcRgb = "off_wait" =>
            /\ phases = ScanPhases(rgbLevels, led + 1)
            /\ ~pins[led])
    /\ [](led \in Leds)
    /\ [][/\ led' # led =>
               /\ pcRgb = "off_wait"
               /\ \/ led' = led + 1 /\ pcRgb' = "step"
                  \/ led = 2 /\ led' = 0 /\ pcRgb' = "lock_levels"
          /\ (pcRgb = "off_wait" /\ pcRgb' # pcRgb) => led' # led
          /\ (pcRgb = "on_wait" /\ pcRgb' # pcRgb) =>
               (pcRgb' = "off_wait" /\ led' = led)
          /\ (pcRgb = "step" /\ pcRgb' # pcRgb) =>
               (pcRgb' \in {"on_wait", "off_wait"} /\ led' = led)
          /\ (pcRgb' = "step" /\ pcRgb # "step") =>
               \/ pcRgb = "read_rate" /\ led' = 0
               \/ pcRgb = "off_wait" /\ led' = led + 1
         ]_vars

\* C17 witness: the last off wait of an iteration in which red and blue
\* were pulsed and green, at level 0, was not.
C17_Witness ==
    /\ pcRgb = "off_wait"
    /\ led = 2
    /\ rgbLevels[1] = 0
    /\ phases = <<<<0, "on">>, <<0, "off">>, <<1, "off">>, <<2, "on">>, <<2, "off">>>>

\* C18: a channel whose level in the scheduler's snapshot is 0 is never
\* driven high in that iteration: its step sets no pin, has no on wait, and
\* consists of the off wait of LEVELS * tick_time alone.
C18_ZeroLevelStaysDark ==
    /\ [](Stepping =>
            \A i \in Leds : rgbLevels[i] = 0 =>
                /\ ~pins[i]
                /\ \A k \in 1 .. Len(phases) : phases[k] # <<i, "on">>)
    /\ [](Stepping /\ rgbLevels[led] = 0 =>
            /\ pcRgb \in {"step", "off_wait"}
            /\ on_time = 0
            /\ pcRgb = "off_wait" =>
                  /\ off_level = LEVELS
                  /\ off_time = LEVELS * tick_time)
    /\ [][(pcRgb = "step" /\ rgbLevels[led] = 0 /\ pcRgb' # pcRgb) =>
            /\ pcRgb' = "off_wait"
            /\ pins' = pins
            /\ waited' = waited
            /\ off_time' = LEVELS * tick_time
          ]_vars
    /\ [][(pcRgb = "off_wait" /\ rgbLevels[led] = 0 /\ pcRgb' # pcRgb) =>
            (pins' = pins /\ waited' = waited + LEVELS * tick_time)]_vars

\* C18 witness: blue is at level 0 and in its off wait; red and green were
\* pulsed before it in this iteration.
C18_Witness ==
    /\ pcRgb = "off_wait"
    /\ led = 2
    /\ rgbLevels = Triple(LEVELS - 1, LEVELS - 1, 0)
    /\ off_time = LEVELS * tick_time
    /\ waited = 2 * LEVELS * tick_time
    /\ phases = <<<<0, "on">>, <<0, "off">>, <<1, "on">>, <<1, "off">>, <<2, "off">>>>

\* the channels whose output is high
High == {i \in Leds : pins[i]}

\* C20: at most one of the three outputs is high; an output is high only
\* between the set_high and the set_low of its own step; all three are low
\* during every off wait and while the scheduler takes its snapshot.
C20_OneOutputHigh ==
    /\ [](Cardinality(High) <= 1)
    /\ [](\A i \in Leds : pins[i] => (pcRgb = "on_wait" /\ led = i))
    /\ [](pcRgb = "on_wait" => High = {led})
    /\ [](pcRgb # "on_wait" => High = {})
    /\ [][pins' # pins =>
            \/ /\ pcRgb = "step" /\ pcRgb' = "on_wait"
               /\ pins' = [pins EXCEPT ![led] = TRUE]
            \/ /\ pcRgb = "on_wait" /\ pcRgb' = "off_wait"
               /\ pins' = [pins EXCEPT ![led] = FALSE]
          ]_vars

\* C20 witness: green is high in its on wait while red and blue, both at
\* a level above 0, are low.
C20_Witness ==
    /\ pcRgb = "on_wait"
    /\ led = 1
    /\ pins = Triple(FALSE, TRUE, FALSE)
    /\ rgbLevels[0] > 0
    /\ rgbLevels[2] > 0
    /\ polled

\* InputController has finished its initialization and has not yet read the
\* buttons
InitDone == ~uiInit /\ pcUi = "loop" /\ ~polled

\* C19: the initialization of InputController takes exactly one measurement,
\* sets the frame rate to level_to_frame_rate of it, stores the default
\* levels [15,15,15] and then that frame rate, and emits the state once,
\* all before the buttons are read for the first time; when it is done the
\* store holds the derived frame rate.
C19_Initialization ==
    /\ [](uiInit => pcUi \in {"init_sample", "lock_levels", "write0", "write1",
                               "write2", "ret_set_levels", "lock_rate",
                               "write_rate"})
    /\ [](uiInit => (~polled /\ shows = 0 /\ FRAME_RATE = FRAME_RATE_INIT
                      /\ uiLevels = Triple(15, 15, 15)))
    /\ [](uiInit /\ pcUi = "init_sample" => samples = 0)
    /\ [](uiInit /\ pcUi # "init_sample" =>
            /\ samples = 1
            /\ initial_level \in 0 .. LEVELS - 1
            /\ uiFrameRate = (initial_level + 1) * 10)
    /\ [](uiInit /\ pcUi \in {"lock_rate", "write_rate"} =>
            /\ RGB_LEVELS = Triple(15, 15, 15)
            /\ new_rate = (initial_level + 1) * 10)
    /\ [](InitDone =>
            /\ samples = 1
            /\ shows = 1
            /\ RGB_LEVELS = Triple(15, 15, 15)
            /\ FRAME_RATE = (initial_level + 1) * 10
            /\ uiFrameRate = FRAME_RATE)
    /\ [][/\ uiInit' = uiInit \/ (uiInit /\ pcUi = "write_rate" /\ pcUi' = "loop")
          /\ (pcUi' = "sample" /\ pcUi # "sample") => (~uiInit /\ pcUi = "loop")
          /\ (uiInit /\ RGB_LEVELS' # RGB_LEVELS) => FRAME_RATE' = FRAME_RATE_INIT
         ]_vars

\* C19 witness: the initialization measured level 5 and is done: the store
\* holds [15,15,15] and 60 fps, not 100, and the state was emitted once.
C19_Witness ==
    /\ InitDone
    /\ initial_level = 5
    /\ FRAME_RATE = 60
    /\ RGB_LEVELS = Triple(15, 15, 15)
    /\ shows = 1
    /\ samples = 1

\* C21: once the initialization of InputController is done, whenever it is
\* in its 50 ms poll wait the levels triple and the frame rate in the store
\* equal the ones it tracks locally; the same holds until the next
\* measurement completes.  No step of the scheduler writes the store.
C21_StoreMatchesLocal ==
    /\ [](pcUi = "poll_wait" => ~uiInit)
    /\ [](~uiInit /\ pcUi \in {"poll_wait", "loop", "sample"} =>
            /\ RGB_LEVELS = uiLevels
            /\ FRAME_RATE = uiFrameRate
            /\ lvComplete = uiLevels
            /\ rgbLock # "ui"
            /\ frLock # "ui")
    /\ [][pcRgb' # pcRgb => UNCHANGED <<RGB_LEVELS, FRAME_RATE>>]_vars
    /\ [][RGB_LEVELS' # RGB_LEVELS =>
            (pcUi \in {"write0", "write1", "write2"} /\ rgbLock = "ui")]_vars
    /\ [][FRAME_RATE' # FRAME_RATE =>
            (pcUi = "write_rate" /\ frLock = "ui")]_vars

\* C21 witness: InputController is in its poll wait after it has changed
\* green with button B held and, in an earlier iteration, the frame rate;
\* the scheduler is in the middle of a cycle with older levels.
C21_Witness ==
    /\ pcUi = "poll_wait"
    /\ polled
    /\ state_changed
    /\ ~button_a_pressed /\ button_b_pressed
    /\ uiLevels[1] = level
    /\ level # LEVELS - 1
    /\ RGB_LEVELS = uiLevels
    /\ FRAME_RATE = uiFrameRate
    /\ FRAME_RATE # FRAME_RATE_INIT
    /\ Stepping
    /\ rgbLevels # RGB_LEVELS

====
